---------------------------- MODULE Spec2Model ----------------------------
(***************************************************************************)
(* State-machine model of the python prototype of the limit-order-book     *)
(* exchange: the per-market OrderBook (book.py) with its intrusive         *)
(* OrderList queues (linked_list.py), the multi-market MatchingEngine with *)
(* its order registry (deprecated_engine.py), the EconomyManager           *)
(* (economy.py), the EngineInterface workflows (interface.py) and the      *)
(* tasks of the asyncio server (server.py).                                *)
(*                                                                         *)
(* Money is kept in cents: the code converts engine cents to Decimal       *)
(* dollars (Decimal(price) / 100) and multiplies by integer quantities,    *)
(* which is exact, so every balance is an integer number of cents here.    *)
(* A Trade is the record process_order builds at book.py:82-93, with the   *)
(* buy_user_id / sell_user_id fields that the interface and the tests read *)
(* (the dataclass in trade.py declares only the first six fields).         *)
(***************************************************************************)
EXTENDS Integers, Sequences, FiniteSets, TLC

(***************************************************************************)
(* Bounds of the model.                                                    *)
(***************************************************************************)
MaxClock == 2        \* number of resting-order nodes ever created
MaxOrderId == 3      \* order ids are 1..MaxOrderId (clients choose them)
MaxPrice == 2        \* limit prices are 1..MaxPrice cents
MaxQty == 2          \* order quantities are 1..MaxQty
MaxUnitClock == 3    \* nodes ever created when only unit orders are placed

SYSTEM_USER_ID == 0
Users == {1, 2}                      \* ids handed out by UserIdMapper
AllUsers == Users \cup {SYSTEM_USER_ID}
OrderIds == 1..MaxOrderId
Prices == 1..MaxPrice
Qtys == 1..MaxQty
Sides == {"buy", "sell"}
NodeIds == 1..((IF MaxClock > MaxUnitClock THEN MaxClock ELSE MaxUnitClock) + 1)
NoNode == 0

Min(a, b) == IF a < b THEN a ELSE b

\* With(value, Body): Body applied to value; names a value that is computed
\* once and read several times.
With(value, Body(_)) == Body(value)

RECURSIVE SumOver(_, _)
SumOver(f, S) ==
    IF S = {} THEN 0
    ELSE LET x == CHOOSE y \in S : TRUE IN f[x] + SumOver(f, S \ {x})

RECURSIVE SeqSum(_)
SeqSum(s) == IF s = <<>> THEN 0 ELSE Head(s) + SeqSum(Tail(s))

(***************************************************************************)
(* OrderNode (node.py) and OrderList (linked_list.py).  Nodes live in the  *)
(* book's node store; a reference is a node id, None is NoNode.            *)
(***************************************************************************)
FreeNode ==
    [order_id |-> 0, user_id |-> 0, price |-> 0, quantity |-> 0,
     timestamp |-> 0, next_node |-> NoNode, prev_node |-> NoNode,
     side |-> "none"]

\* OrderNode(order_id, user_id, price, quantity, timestamp).  The field
\* side is a history field (the side the node was created for); the code keeps
\* no side in the node and no operation below reads it.
OrderNode(order_id, user_id, price, quantity, timestamp, side) ==
    [order_id |-> order_id, user_id |-> user_id, price |-> price,
     quantity |-> quantity, timestamp |-> timestamp,
     next_node |-> NoNode, prev_node |-> NoNode, side |-> side]

\* OrderList(): an empty queue.  exists = FALSE encodes "price is not a key
\* of the side's dict".
NoLevel == [exists |-> FALSE, head |-> NoNode, tail |-> NoNode,
            count |-> 0, total_volume |-> 0]
OrderList == [exists |-> TRUE, head |-> NoNode, tail |-> NoNode,
              count |-> 0, total_volume |-> 0]

\* Fault variant of OrderList.append: the node is linked in at the head.
OrderList_append_front(lst, node, n) ==
    LET l1 == [lst EXCEPT !.count = @ + 1,
                          !.total_volume = @ + node[n].quantity]
    IN IF l1.head = NoNode
       THEN [lst |-> [l1 EXCEPT !.head = n, !.tail = n],
             node |-> [node EXCEPT ![n].prev_node = NoNode,
                                   ![n].next_node = NoNode]]
       ELSE LET nd1 == [node EXCEPT ![l1.head].prev_node = n]
                nd2 == [nd1 EXCEPT ![n].next_node = l1.head]
                nd3 == [nd2 EXCEPT ![n].prev_node = NoNode]
            IN [lst |-> [l1 EXCEPT !.head = n], node |-> nd3]

\* OrderList.append: returns the updated list and node store.
OrderList_append(lst, node, n) ==
    LET l1 == [lst EXCEPT !.count = @ + 1,
                          !.total_volume = @ + node[n].quantity]
    IN IF l1.tail = NoNode
       THEN [lst |-> [l1 EXCEPT !.head = n, !.tail = n],
             node |-> [node EXCEPT ![n].prev_node = NoNode,
                                   ![n].next_node = NoNode]]
       ELSE LET nd1 == [node EXCEPT ![l1.tail].next_node = n]
                nd2 == [nd1 EXCEPT ![n].prev_node = l1.tail]
                nd3 == [nd2 EXCEPT ![n].next_node = NoNode]
            IN [lst |-> [l1 EXCEPT !.tail = n], node |-> nd3]

\* Fault variant of OrderList.remove: the node is unlinked and counted out,
\* but its quantity stays in total_volume.
OrderList_remove_volume_kept(lst, node, n) ==
    LET l1 == [lst EXCEPT !.count = @ - 1]
        l2 == IF node[n].prev_node = NoNode
              THEN [l1 EXCEPT !.head = node[n].next_node] ELSE l1
        nd2 == IF node[n].prev_node = NoNode THEN node
               ELSE [node EXCEPT ![node[n].prev_node].next_node = node[n].next_node]
        l3 == IF nd2[n].next_node = NoNode
              THEN [l2 EXCEPT !.tail = nd2[n].prev_node] ELSE l2
        nd3 == IF nd2[n].next_node = NoNode THEN nd2
               ELSE [nd2 EXCEPT ![nd2[n].next_node].prev_node = nd2[n].prev_node]
        nd4 == [nd3 EXCEPT ![n].next_node = NoNode, ![n].prev_node = NoNode]
    IN [lst |-> l3, node |-> nd4]

\* OrderList.remove, statement by statement (the list given need not be the
\* one the node is linked in).
OrderList_remove(lst, node, n) ==
    LET l1 == [lst EXCEPT !.total_volume = @ - node[n].quantity,
                          !.count = @ - 1]
        \* update head or the previous node
        l2 == IF node[n].prev_node = NoNode
              THEN [l1 EXCEPT !.head = node[n].next_node] ELSE l1
        nd2 == IF node[n].prev_node = NoNode THEN node
               ELSE [node EXCEPT ![node[n].prev_node].next_node = node[n].next_node]
        \* update tail or the next node
        l3 == IF nd2[n].next_node = NoNode
              THEN [l2 EXCEPT !.tail = nd2[n].prev_node] ELSE l2
        nd3 == IF nd2[n].next_node = NoNode THEN nd2
               ELSE [nd2 EXCEPT ![nd2[n].next_node].prev_node = nd2[n].prev_node]
        nd4 == [nd3 EXCEPT ![n].next_node = NoNode, ![n].prev_node = NoNode]
    IN [lst |-> l3, node |-> nd4]

(***************************************************************************)
(* heapq on a list of integers.  Only heap[0] (the minimum), heappush and  *)
(* heappop are used by the book, so the heap is kept as the ascending list *)
(* of its entries.                                                         *)
(***************************************************************************)
\* Fault variant of heappush: the entry is put at the root unconditionally.
heappush_front(h, x) == <<x>> \o h

RECURSIVE heappush(_, _)
heappush(h, x) ==
    IF h = <<>> THEN <<x>>
    ELSE IF x <= Head(h) THEN <<x>> \o h
    ELSE <<Head(h)>> \o heappush(Tail(h), x)

\* Fault variant of heappop: the last entry of the list is dropped, not the
\* smallest.
heappop_last(h) == SubSeq(h, 1, Len(h) - 1)

heappop(h) == Tail(h)

(***************************************************************************)
(* Trade (as built at book.py:82-93, 144-155 and 348-359).                 *)
(***************************************************************************)
Trade(buy_order_id, sell_order_id, price, quantity, maker_order_id, taker_order_id, buy_user_id, sell_user_id) ==
    [buy_order_id |-> buy_order_id, sell_order_id |-> sell_order_id,
     price |-> price, quantity |-> quantity,
     maker_order_id |-> maker_order_id, taker_order_id |-> taker_order_id,
     buy_user_id |-> buy_user_id, sell_user_id |-> sell_user_id]

(***************************************************************************)
(* OrderBook (book.py).  A book is a record:                               *)
(*   orders      _orders: order id -> node (NoNode: not a key)             *)
(*   order_keys  the keys of _orders in dict (insertion) order             *)
(*   bids, asks  _bids, _asks: price -> OrderList (exists: is a key)       *)
(*   bids_heap   _bids_heap, holding negated prices; asks_heap likewise    *)
(*   positions   _positions, read with .get(user, 0)                       *)
(*   active      the open flag                                             *)
(*   node        the OrderNode objects reachable from the book             *)
(* An operation returns the book it leaves behind, the value it returns    *)
(* and err: "none", or the exception that left the method.                 *)
(***************************************************************************)
OrderBook ==
    [orders |-> [o \in OrderIds |-> NoNode],
     order_keys |-> <<>>,
     bids |-> [p \in Prices |-> NoLevel],
     asks |-> [p \in Prices |-> NoLevel],
     bids_heap |-> <<>>,
     asks_heap |-> <<>>,
     positions |-> [u \in AllUsers |-> 0],
     active |-> TRUE,
     node |-> [n \in NodeIds |-> FreeNode]]

SeqWithout(s, x) == SelectSeq(s, LAMBDA y : y # x)

\* self._orders[k] = n
orders_set(b, k, n) ==
    [b EXCEPT !.orders[k] = n,
              !.order_keys = IF b.orders[k] = NoNode THEN Append(@, k) ELSE @]

\* del self._orders[k]   (the caller has checked that k is a key)
orders_del(b, k) ==
    [b EXCEPT !.orders[k] = NoNode, !.order_keys = SeqWithout(@, k)]

\* Nodes still referenced from the book: by _orders, by the head or tail of
\* a queue that is a key of _bids / _asks, or by a referenced node's links.
RECURSIVE Closure(_, _)
Closure(node, S) ==
    LET T == S \cup {node[n].next_node : n \in S}
               \cup {node[n].prev_node : n \in S}
        U == T \ {NoNode}
    IN IF U = S THEN S ELSE Closure(node, U)

Referenced(b) ==
    Closure(b.node,
            ({b.orders[o] : o \in OrderIds}
             \cup {b.bids[p].head : p \in Prices} \cup {b.bids[p].tail : p \in Prices}
             \cup {b.asks[p].head : p \in Prices} \cup {b.asks[p].tail : p \in Prices})
            \ {NoNode})

\* Python drops an object nothing refers to.
Collect(b) ==
    With(Referenced(b), LAMBDA live :
        [b EXCEPT !.node = [n \in NodeIds |-> IF n \in live THEN b.node[n] ELSE FreeNode]])

FreshNode(b) == CHOOSE n \in NodeIds :
                   /\ b.node[n] = FreeNode
                   /\ \A k \in NodeIds : k < n => b.node[k] # FreeNode

\* OrderBook._add_to_book; ts is the value time.time() returns.
Book_add_to_book(b, side, price, quantity, order_id, user_id, ts) ==
    IF ~b.active THEN [b |-> b, trades |-> <<>>, err |-> "ValueError"]
    ELSE
    With(FreshNode(b), LAMBDA n :
    With(orders_set([b EXCEPT !.node[n] = OrderNode(order_id, user_id, price,
                                                    quantity, ts, side)],
                    order_id, n), LAMBDA b2 :
    IF side = "buy" THEN
       With(~b2.bids[price].exists, LAMBDA fresh :
       With(OrderList_append(IF fresh THEN OrderList ELSE b2.bids[price], b2.node, n),
            LAMBDA r :
       [b |-> [b2 EXCEPT !.bids[price] = r.lst,
                         !.bids_heap = IF fresh THEN heappush(@, -price) ELSE @,
                         !.node = r.node],
        trades |-> <<>>, err |-> "none"]))
    ELSE IF side = "sell" THEN
       With(~b2.asks[price].exists, LAMBDA fresh :
       With(OrderList_append(IF fresh THEN OrderList ELSE b2.asks[price], b2.node, n),
            LAMBDA r :
       [b |-> [b2 EXCEPT !.asks[price] = r.lst,
                         !.asks_heap = IF fresh THEN heappush(@, price) ELSE @,
                         !.node = r.node],
        trades |-> <<>>, err |-> "none"]))
    ELSE [b |-> b2, trades |-> <<>>, err |-> "none"]))

\* OrderBook.add_order
Book_add_order(b, side, price, quantity, order_id, user_id, ts) ==
    Book_add_to_book(b, side, price, quantity, order_id, user_id, ts)

\* Fault variant of ExecutionPrice: the trade is booked at the taker's limit.
ExecutionPrice_limit(best_price, price) == price

\* Fault variant of UpdatePositions: only the taker's position moves.
UpdatePositions_taker(positions, side, user_id, maker_user_id, trade_qty) ==
    IF side = "buy"
    THEN [positions EXCEPT ![user_id] = @ + trade_qty]
    ELSE [positions EXCEPT ![user_id] = @ - trade_qty]

\* "Trade at Maker's price": the price a trade is booked at, given the best
\* opposite price being matched and the taker's limit (book.py:86, 148).
ExecutionPrice(best_price, price) == best_price

\* "Update positions" (book.py:95-97 for a buy taker, 157-159 for a sell
\* taker): the taker's and the maker's net positions move by trade_qty.
UpdatePositions(positions, side, user_id, maker_user_id, trade_qty) ==
    IF side = "buy"
    THEN LET p1 == [positions EXCEPT ![user_id] = @ + trade_qty]
         IN [p1 EXCEPT ![maker_user_id] = @ - trade_qty]
    ELSE LET p1 == [positions EXCEPT ![maker_user_id] = @ + trade_qty]
         IN [p1 EXCEPT ![user_id] = @ - trade_qty]

\* The inner loop of process_order (book.py:75-107 for a buy taker, 137-167
\* for a sell taker): fill the head of the best opposite queue while quantity
\* remains.  `del self._orders[...]` of an id that is no key raises KeyError
\* after the trade's mutations (the trades list is then lost to the caller).
RECURSIVE MatchQueue(_, _, _, _, _, _, _, _)
MatchQueue(b, side, best, price, remaining_qty, order_id, user_id, trades) ==
    With(IF side = "buy" THEN b.asks[best] ELSE b.bids[best], LAMBDA queue :
    IF ~(remaining_qty > 0 /\ queue.head # NoNode)
    THEN [b |-> b, rem |-> remaining_qty, trades |-> trades, err |-> "none"]
    ELSE
    With(queue.head, LAMBDA m :
    With(b.node[m], LAMBDA maker_order :
    With(Min(remaining_qty, maker_order.quantity), LAMBDA trade_qty :
    With(IF side = "buy"
         THEN Trade(order_id, maker_order.order_id, ExecutionPrice(best, price),
                    trade_qty, maker_order.order_id, order_id,
                    user_id, maker_order.user_id)
         ELSE Trade(maker_order.order_id, order_id, ExecutionPrice(best, price),
                    trade_qty, maker_order.order_id, order_id,
                    maker_order.user_id, user_id), LAMBDA trade :
    With([b.node EXCEPT ![m].quantity = @ - trade_qty], LAMBDA node1 :
    With([queue EXCEPT !.total_volume = @ - trade_qty], LAMBDA queue1 :
    With(node1[m].quantity = 0, LAMBDA filled :
    With(IF filled THEN OrderList_remove(queue1, node1, m)
         ELSE [lst |-> queue1, node |-> node1], LAMBDA rm :
    With([b EXCEPT !.positions = UpdatePositions(@, side, user_id,
                                                 maker_order.user_id, trade_qty),
                   !.node = rm.node,
                   !.asks[best] = IF side = "buy" THEN rm.lst ELSE @,
                   !.bids[best] = IF side = "buy" THEN @ ELSE rm.lst], LAMBDA b1 :
    IF filled /\ b1.orders[maker_order.order_id] = NoNode
    THEN [b |-> b1, rem |-> remaining_qty - trade_qty,
          trades |-> Append(trades, trade), err |-> "KeyError"]
    ELSE MatchQueue(IF filled THEN orders_del(b1, maker_order.order_id) ELSE b1,
                    side, best, price, remaining_qty - trade_qty, order_id,
                    user_id, Append(trades, trade))))))))))))

\* The outer loop of a buy taker (book.py:58-112).  When the inner loop ends
\* with quantity remaining and the queue's count is not 0, the next iteration
\* finds the same state: the loop never ends ("hang").
RECURSIVE MatchAsks(_, _, _, _, _, _)
MatchAsks(b, price, remaining_qty, order_id, user_id, trades) ==
    IF ~(remaining_qty > 0 /\ b.asks_heap # <<>>)
    THEN [b |-> b, rem |-> remaining_qty, trades |-> trades, err |-> "none"]
    ELSE
    LET best_ask_price == Head(b.asks_heap)
    IN IF price < best_ask_price
       THEN [b |-> b, rem |-> remaining_qty, trades |-> trades, err |-> "none"]
       ELSE IF ~b.asks[best_ask_price].exists
       THEN MatchAsks([b EXCEPT !.asks_heap = heappop(@)], price, remaining_qty,
                      order_id, user_id, trades)
       ELSE
       With(MatchQueue(b, "buy", best_ask_price, price, remaining_qty, order_id,
                       user_id, trades), LAMBDA r :
          IF r.err # "none" THEN r
          ELSE IF r.b.asks[best_ask_price].count = 0
          THEN MatchAsks([r.b EXCEPT !.asks[best_ask_price] = NoLevel,
                                     !.asks_heap = heappop(@)],
                         price, r.rem, order_id, user_id, r.trades)
          ELSE IF r.rem > 0
          THEN [r EXCEPT !.err = "hang"]
          ELSE r)

\* The outer loop of a sell taker (book.py:118-171).
RECURSIVE MatchBids(_, _, _, _, _, _)
MatchBids(b, price, remaining_qty, order_id, user_id, trades) ==
    IF ~(remaining_qty > 0 /\ b.bids_heap # <<>>)
    THEN [b |-> b, rem |-> remaining_qty, trades |-> trades, err |-> "none"]
    ELSE
    LET best_bid_price == -Head(b.bids_heap)
    IN IF price > best_bid_price
       THEN [b |-> b, rem |-> remaining_qty, trades |-> trades, err |-> "none"]
       ELSE IF ~b.bids[best_bid_price].exists
       THEN MatchBids([b EXCEPT !.bids_heap = heappop(@)], price, remaining_qty,
                      order_id, user_id, trades)
       ELSE
       With(MatchQueue(b, "sell", best_bid_price, price, remaining_qty, order_id,
                       user_id, trades), LAMBDA r :
          IF r.err # "none" THEN r
          ELSE IF r.b.bids[best_bid_price].count = 0
          THEN MatchBids([r.b EXCEPT !.bids[best_bid_price] = NoLevel,
                                     !.bids_heap = heappop(@)],
                         price, r.rem, order_id, user_id, r.trades)
          ELSE IF r.rem > 0
          THEN [r EXCEPT !.err = "hang"]
          ELSE r)

\* Fault variant of process_order: the order is rested without being matched.
Book_process_order_unmatched(b, side, price, quantity, order_id, user_id, ts) ==
    With(Book_add_to_book(b, side, price, quantity, order_id, user_id, ts), LAMBDA a :
       [b |-> a.b, trades |-> <<>>, err |-> a.err, rested |-> b.active])

\* OrderBook.process_order.  The result's trades are the list returned when
\* err = "none", and the trades executed before the exception otherwise;
\* rested tells whether _add_to_book was called (a node was created).
Book_process_order(b, side, price, quantity, order_id, user_id, ts) ==
    IF ~b.active THEN [b |-> b, trades |-> <<>>, err |-> "ValueError", rested |-> FALSE]
    ELSE
    With(IF side = "buy" THEN MatchAsks(b, price, quantity, order_id, user_id, <<>>)
         ELSE IF side = "sell" THEN MatchBids(b, price, quantity, order_id, user_id, <<>>)
         ELSE [b |-> b, rem |-> quantity, trades |-> <<>>, err |-> "none"], LAMBDA r :
    With(Collect(r.b), LAMBDA b1 :
       IF r.err = "none" /\ r.rem > 0
       THEN With(Book_add_to_book(b1, side, price, r.rem, order_id, user_id, ts),
                 LAMBDA a :
                 [b |-> a.b, trades |-> r.trades, err |-> a.err, rested |-> TRUE])
       ELSE [b |-> b1, trades |-> r.trades, err |-> r.err, rested |-> FALSE]))

\* OrderBook.cancel_order
Book_cancel_order(b, order_id) ==
    IF b.orders[order_id] = NoNode THEN b
    ELSE
    LET n == b.orders[order_id]
        price == b.node[n].price
    IN Collect(orders_del(
          IF b.bids[price].exists
          THEN With(OrderList_remove(b.bids[price], b.node, n), LAMBDA r :
                  [b EXCEPT !.node = r.node,
                            !.bids[price] = IF r.lst.count = 0 THEN NoLevel ELSE r.lst])
          ELSE IF b.asks[price].exists
          THEN With(OrderList_remove(b.asks[price], b.node, n), LAMBDA r :
                  [b EXCEPT !.node = r.node,
                            !.asks[price] = IF r.lst.count = 0 THEN NoLevel ELSE r.lst])
          ELSE b,
          order_id))

\* OrderBook.get_best_bid: the book after the lazy pops and the price
\* returned (0 stands for None).
RECURSIVE Book_get_best_bid(_)
Book_get_best_bid(b) ==
    IF b.bids_heap = <<>> THEN [b |-> b, val |-> 0]
    ELSE LET best_price == -Head(b.bids_heap)
         IN IF b.bids[best_price].exists THEN [b |-> b, val |-> best_price]
            ELSE Book_get_best_bid([b EXCEPT !.bids_heap = heappop(@)])

\* OrderBook.get_best_ask
RECURSIVE Book_get_best_ask(_)
Book_get_best_ask(b) ==
    IF b.asks_heap = <<>> THEN [b |-> b, val |-> 0]
    ELSE LET best_price == Head(b.asks_heap)
         IN IF b.asks[best_price].exists THEN [b |-> b, val |-> best_price]
            ELSE Book_get_best_ask([b EXCEPT !.asks_heap = heappop(@)])

\* for old in orders_to_cancel: self.cancel_order(old)
RECURSIVE CancelAll(_, _)
CancelAll(b, keys) ==
    IF keys = <<>> THEN b ELSE CancelAll(Book_cancel_order(b, Head(keys)), Tail(keys))

\* Fault variant of SettleTrade: the user always is the buyer.
SettleTrade_buyer(user_id, net_qty, terminal_price) ==
    Trade(-1, -1, terminal_price, IF net_qty > 0 THEN net_qty ELSE -net_qty,
          -1, -1, user_id, SYSTEM_USER_ID)

\* The synthetic trade of one user with a non-zero position (book.py:335-359).
SettleTrade(user_id, net_qty, terminal_price) ==
    LET long == net_qty > 0
        qty == IF long THEN net_qty ELSE -net_qty
        userBuys == (long /\ terminal_price = 1) \/ (~long /\ terminal_price # 1)
    IN Trade(-1, -1, terminal_price, qty, -1, -1,
             IF userBuys THEN user_id ELSE SYSTEM_USER_ID,
             IF userBuys THEN SYSTEM_USER_ID ELSE user_id)

\* The trades of the users in us with non-zero position, by ascending user id
\* (the code follows the dict order of _positions; no operation modelled here
\* depends on the order of these trades).
RECURSIVE SettleTrades(_, _, _)
SettleTrades(positions, us, terminal_price) ==
    IF us = {} THEN <<>>
    ELSE LET u == CHOOSE x \in us : \A y \in us : x <= y
             rest == SettleTrades(positions, us \ {u}, terminal_price)
         IN IF positions[u] = 0 THEN rest
            ELSE <<SettleTrade(u, positions[u], terminal_price)>> \o rest

\* OrderBook.settle_market
Book_settle_market(b, terminal_price) ==
    LET b1 == CancelAll([b EXCEPT !.active = FALSE], b.order_keys)
    IN [b |-> [b1 EXCEPT !.positions = [u \in AllUsers |-> 0]],
        trades |-> SettleTrades(b.positions, AllUsers, terminal_price),
        err |-> "none"]

(***************************************************************************)
(* MatchingEngine with the global order registry (deprecated_engine.py).   *)
(* An engine is a record:                                                  *)
(*   books        _markets' values (a market that is no key has the value  *)
(*                OrderBook())                                             *)
(*   market_keys  the keys of _markets in dict (creation) order            *)
(*   registry     _order_registry: order id -> OrderMetadata               *)
(***************************************************************************)
Markets == {<<1, 1>>, <<1, 2>>}      \* (target_user_id, threshold_minutes)
NoMarket == <<0, 0>>

\* str(n), the decimal digits of a positive int n, is written -n: a value
\* that is equal to no int id.  Format(x) is f"{x}" (a str is itself) and
\* ParseInt(s) is int(s).
StrOf(n) == -n
Format(x) == IF x < 0 THEN x ELSE StrOf(x)
ParseInt(s) == -s

\* The keys _markets can hold: the (int, int) ids of the requests and the
\* (str, int) ids load_state builds (deprecated_engine.py:263).
StrMarkets == {<<StrOf(m[1]), m[2]>> : m \in Markets}
MarketKeys == Markets \cup StrMarkets

NoMeta == [present |-> FALSE, market_id |-> NoMarket, side |-> "none",
           price |-> 0, quantity |-> 0, user_id |-> 0]

OrderMetadata(market_id, side, price, quantity, user_id) ==
    [present |-> TRUE, market_id |-> market_id, side |-> side,
     price |-> price, quantity |-> quantity, user_id |-> user_id]

MatchingEngine ==
    [books |-> [m \in MarketKeys |-> OrderBook],
     market_keys |-> <<>>,
     registry |-> [o \in OrderIds |-> NoMeta]]

InSeq(x, s) == \E i \in 1..Len(s) : s[i] = x

\* MatchingEngine.get_or_create_market / create_market (names are not kept)
Engine_create_market(e, market_id) ==
    IF InSeq(market_id, e.market_keys) THEN e
    ELSE [e EXCEPT !.market_keys = Append(@, market_id)]

\* The registry sync of process_order for the makers (deprecated_engine.py:64-78)
RECURSIVE SyncMakers(_, _, _)
SyncMakers(registry, book, trades) ==
    IF trades = <<>> THEN registry
    ELSE LET trade == Head(trades)
             id == trade.maker_order_id
             reg1 == IF book.orders[id] = NoNode
                     THEN [registry EXCEPT ![id] = NoMeta]
                     ELSE IF registry[id].present
                     THEN [registry EXCEPT ![id].quantity = book.node[book.orders[id]].quantity]
                     ELSE registry
         IN SyncMakers(reg1, book, Tail(trades))

\* MatchingEngine.process_order: an exception of the book leaves the method
\* before the registry is touched.
Engine_process_order(e, market_id, side, price, quantity, order_id, user_id, ts) ==
    With(Engine_create_market(e, market_id), LAMBDA e1 :
    With(Book_process_order(e1.books[market_id], side, price, quantity,
                            order_id, user_id, ts), LAMBDA r :
    With([e1 EXCEPT !.books[market_id] = r.b], LAMBDA e2 :
       IF r.err # "none"
       THEN [e |-> e2, trades |-> r.trades, err |-> r.err, rested |-> r.rested]
       ELSE
       With(SyncMakers(e2.registry, r.b, r.trades), LAMBDA reg1 :
          [e |-> [e2 EXCEPT !.registry =
                     IF r.b.orders[order_id] # NoNode
                     THEN [reg1 EXCEPT ![order_id] =
                              OrderMetadata(market_id, side, price,
                                            r.b.node[r.b.orders[order_id]].quantity,
                                            user_id)]
                     ELSE reg1],
           trades |-> r.trades, err |-> "none", rested |-> r.rested]))))

\* MatchingEngine.cancel_order: the engine left behind and the metadata
\* returned (NoMeta stands for None).
Engine_cancel_order(e, order_id) ==
    LET meta == e.registry[order_id]
    IN IF ~meta.present THEN [e |-> e, meta |-> NoMeta]
       ELSE LET bk == IF InSeq(meta.market_id, e.market_keys)
                      THEN Book_cancel_order(e.books[meta.market_id], order_id)
                      ELSE e.books[meta.market_id]
            IN [e |-> [e EXCEPT !.books[meta.market_id] = bk,
                                !.registry[order_id] = NoMeta],
                meta |-> meta]

\* The loop of settle_markets_for_user over list(self._markets.keys())
\* (deprecated_engine.py:132-137): the books and the trades accumulated.
RECURSIVE SettleMarketsLoop(_, _, _, _, _)
SettleMarketsLoop(e, keys, target_user_id, actual_screentime_minutes, all_trades) ==
    IF keys = <<>> THEN [e |-> e, trades |-> all_trades]
    ELSE
    With(Head(keys), LAMBDA market_id :
       IF market_id[1] # target_user_id
       THEN SettleMarketsLoop(e, Tail(keys), target_user_id,
                              actual_screentime_minutes, all_trades)
       ELSE
       With(Book_settle_market(e.books[market_id],
                               IF actual_screentime_minutes >= market_id[2]
                               THEN 1 ELSE 0), LAMBDA r :
          SettleMarketsLoop([e EXCEPT !.books[market_id] = r.b], Tail(keys),
                            target_user_id, actual_screentime_minutes,
                            all_trades \o r.trades)))

\* MatchingEngine.settle_markets_for_user: the registry is not touched.
Engine_settle_markets_for_user(e, target_user_id, actual_screentime_minutes) ==
    SettleMarketsLoop(e, e.market_keys, target_user_id,
                      actual_screentime_minutes, <<>>)

(***************************************************************************)
(* Persistence (deprecated_engine.py:184-307).  The state dump_state        *)
(* returns is {"markets": {key_str: {"name", "bids", "asks"}}}: here        *)
(*   keys     the keys of the "markets" dict in insertion order; a key      *)
(*            "t,m" is the pair of the two strings                          *)
(*   entry    the value stored under each key (bids and asks: lists of      *)
(*            order dicts); market names are not kept                       *)
(***************************************************************************)
NoEntry == [bids |-> <<>>, asks |-> <<>>]
StateKeys == {<<Format(m[1]), Format(m[2])>> : m \in MarketKeys}
NoState == [keys |-> <<>>, entry |-> [k \in StateKeys |-> NoEntry]]

\* The dict serialize_orders appends for the node curr.
OrderDict(curr, side_label) ==
    [id |-> curr.order_id, user_id |-> curr.user_id, price |-> curr.price,
     qty |-> curr.quantity, side |-> side_label, timestamp |-> curr.timestamp]

\* Fault variant of SerializeLevel: the walk follows next_node to the tail.
RECURSIVE SerializeFrom(_, _, _)
SerializeFrom(node, n, side_label) ==
    IF n = NoNode THEN <<>>
    ELSE <<OrderDict(node[n], side_label)>>
         \o SerializeFrom(node, node[n].next_node, side_label)

SerializeLevel_walk(node, order_list, side_label) ==
    SerializeFrom(node, order_list.head, side_label)

\* The while loop of serialize_orders on one level: curr = head; the dict of
\* curr is appended and curr = getattr(curr, "next", None), which is None
\* because OrderNode has the attribute next_node and no attribute next
\* (node.py:5-16): the walk ends after the head.
SerializeLevel(node, order_list, side_label) ==
    IF order_list.head = NoNode THEN <<>>
    ELSE <<OrderDict(node[order_list.head], side_label)>>

\* serialize_orders over the levels from price p up (the code follows the
\* dict order of the side; the levels are taken by ascending price here).
RECURSIVE serialize_orders(_, _, _, _)
serialize_orders(node, orders_map, side_label, p) ==
    IF p > MaxPrice THEN <<>>
    ELSE (IF orders_map[p].exists
          THEN SerializeLevel(node, orders_map[p], side_label) ELSE <<>>)
         \o serialize_orders(node, orders_map, side_label, p + 1)

\* markets_data[key_str] = value
StateSet(state, key_str, value) ==
    [keys |-> IF InSeq(key_str, state.keys) THEN state.keys
              ELSE Append(state.keys, key_str),
     entry |-> [state.entry EXCEPT ![key_str] = value]]

\* The loop of dump_state over self._markets.items()
RECURSIVE DumpMarkets(_, _, _)
DumpMarkets(e, keys, state) ==
    IF keys = <<>> THEN state
    ELSE
    With(Head(keys), LAMBDA market_id :
    With(e.books[market_id], LAMBDA book :
       DumpMarkets(e, Tail(keys),
                   StateSet(state,
                            <<Format(market_id[1]), Format(market_id[2])>>,
                            [bids |-> serialize_orders(book.node, book.bids, "buy", 1),
                             asks |-> serialize_orders(book.node, book.asks, "sell", 1)]))))

\* MatchingEngine.dump_state
Engine_dump_state(e) == DumpMarkets(e, e.market_keys, NoState)

\* restore_orders: add_order for every order dict, then the saved timestamp
\* is written over the one add_order took from the clock.
RECURSIVE restore_orders(_, _, _, _)
restore_orders(book, order_list_data, side, now) ==
    IF order_list_data = <<>> THEN book
    ELSE
    With(Head(order_list_data), LAMBDA o_data :
    With(Book_add_order(book, side, o_data.price, o_data.qty, o_data.id,
                        o_data.user_id, now).b, LAMBDA b1 :
       restore_orders(IF b1.orders[o_data.id] # NoNode
                      THEN [b1 EXCEPT !.node[b1.orders[o_data.id]].timestamp =
                                         o_data.timestamp]
                      ELSE b1,
                      Tail(order_list_data), side, now)))

\* The loop of load_state over state["markets"].items(): the market id is
\* (target_user, int(minutes_str)) with target_user the str split off the key.
RECURSIVE LoadMarkets(_, _, _, _)
LoadMarkets(e, keys, state, now) ==
    IF keys = <<>> THEN e
    ELSE
    With(Head(keys), LAMBDA key_str :
    With(<<key_str[1], ParseInt(key_str[2])>>, LAMBDA market_id :
    With(Engine_create_market(e, market_id), LAMBDA e1 :
    With(restore_orders(e1.books[market_id], state.entry[key_str].bids, "buy", now),
         LAMBDA b1 :
    With(restore_orders(b1, state.entry[key_str].asks, "sell", now), LAMBDA b2 :
       LoadMarkets([e1 EXCEPT !.books[market_id] = b2], Tail(keys), state, now))))))

\* MatchingEngine.load_state: _markets is cleared, the registry is left as it
\* is.
Engine_load_state(e, state, now) ==
    LoadMarkets([e EXCEPT !.books = MatchingEngine.books, !.market_keys = <<>>],
                state.keys, state, now)

(***************************************************************************)
(* EconomyManager (economy.py).  accounts maps a user to the account       *)
(* get_account returns (a user never seen has the fresh Account: 0, 0, no  *)
(* position).  Balances are in cents; portfolio keeps Position.quantity    *)
(* (the average entry price, which no balance depends on, is left out).    *)
(***************************************************************************)
Account == [balance_available |-> 0, balance_locked |-> 0,
            portfolio |-> [m \in Markets |-> 0]]

\* Fault variant of attempt_order_lock: the cost is locked without looking at
\* the available balance.
Economy_attempt_order_lock_unchecked(accounts, user_id, price, quantity) ==
    [accounts |-> [accounts EXCEPT
                      ![user_id].balance_available = @ - price * quantity,
                      ![user_id].balance_locked = @ + price * quantity],
     ok |-> TRUE]

\* EconomyManager.attempt_order_lock: the accounts and the boolean returned
Economy_attempt_order_lock(accounts, user_id, price, quantity) ==
    LET cost == price * quantity
    IN IF accounts[user_id].balance_available >= cost
       THEN [accounts |-> [accounts EXCEPT ![user_id].balance_available = @ - cost,
                                           ![user_id].balance_locked = @ + cost],
             ok |-> TRUE]
       ELSE [accounts |-> accounts, ok |-> FALSE]

\* EconomyManager.release_order_lock
Economy_release_order_lock(accounts, user_id, price, quantity) ==
    LET cost == price * quantity
    IN IF accounts[user_id].balance_locked >= cost
       THEN [accounts EXCEPT ![user_id].balance_locked = @ - cost,
                             ![user_id].balance_available = @ + cost]
       ELSE accounts

\* EconomyManager._update_position: every branch leaves
\* quantity = current_qty + change_qty.
Economy_update_position(accounts, user_id, market_id, change_qty) ==
    [accounts EXCEPT ![user_id].portfolio[market_id] = @ + change_qty]

\* EconomyManager.confirm_trade
Economy_confirm_trade(accounts, buyer_id, seller_id, market_id, price, quantity) ==
    LET cost == price * quantity
        a1 == [accounts EXCEPT ![buyer_id].balance_locked = @ - cost]
        a2 == IF a1[buyer_id].balance_locked < 0
              THEN [a1 EXCEPT ![buyer_id].balance_locked = 0] ELSE a1
        a3 == [a2 EXCEPT ![seller_id].balance_available = @ + cost]
        a4 == Economy_update_position(a3, buyer_id, market_id, quantity)
    IN Economy_update_position(a4, seller_id, market_id, -quantity)

(***************************************************************************)
(* UserIdMapper (id_mapper.py): to_internal hands out 1, 2, ... so the     *)
(* users and market targets of the model are mapped ids; SYSTEM_USER_ID 0  *)
(* is never handed out and to_external(0) raises KeyError.                 *)
(***************************************************************************)
Mapped == Users

\* Fault variant of to_external_ok: every id, SYSTEM_USER_ID included, has an
\* external name.
to_external_any(internal_id) == TRUE

\* to_external(id) returns normally
to_external_ok(internal_id) == internal_id \in Mapped

(***************************************************************************)
(* EngineInterface (interface.py) over the engine and the economy.  A      *)
(* workflow returns the engine and accounts it leaves behind, the trades   *)
(* of the engine call, and resp: "ok" or why the request failed.           *)
(***************************************************************************)
\* for trade in trades: to_external(...); confirm_trade(...)
\* (interface.py:310-322 and 399-409)
RECURSIVE ConfirmTrades(_, _, _)
ConfirmTrades(accounts, market_id, trades) ==
    IF trades = <<>> THEN [accounts |-> accounts, err |-> "none"]
    ELSE LET trade == Head(trades)
         IN IF ~(to_external_ok(trade.buy_user_id) /\ to_external_ok(trade.sell_user_id))
            THEN [accounts |-> accounts, err |-> "KeyError"]
            ELSE ConfirmTrades(
                    Economy_confirm_trade(accounts, trade.buy_user_id, trade.sell_user_id,
                                          market_id, trade.price, trade.quantity),
                    market_id, Tail(trades))

TradeQtys(trades) == [i \in 1..Len(trades) |-> trades[i].quantity]
TradeCosts(trades) == [i \in 1..Len(trades) |-> trades[i].price * trades[i].quantity]

\* Step 5 of _handle_place_order: the price-improvement refund
PriceImprovementRefund(accounts, side, user_id, price, trades) ==
    IF side = "buy" /\ trades # <<>>
    THEN LET total_paid == SeqSum(TradeCosts(trades))
             total_filled == SeqSum(TradeQtys(trades))
             total_locked == price * total_filled
             refund == total_locked - total_paid
         IN IF refund > 0
            THEN Economy_release_order_lock(accounts, user_id, refund, 1)
            ELSE accounts
    ELSE accounts

\* EngineInterface._handle_place_order, as run by execute (which turns any
\* exception into a failure response)
Interface_place_order(e, accounts, market_id, side, price, quantity, order_id, user_id, ts) ==
    With(IF side = "buy"
         THEN Economy_attempt_order_lock(accounts, user_id, price, quantity)
         ELSE [accounts |-> accounts, ok |-> TRUE], LAMBDA lock :
    IF ~lock.ok
    THEN [e |-> e, accounts |-> accounts, trades |-> <<>>,
          resp |-> "InsufficientFunds", rested |-> FALSE]
    ELSE
    With(Engine_process_order(e, market_id, side, price, quantity,
                              order_id, user_id, ts), LAMBDA r :
       IF r.err = "ValueError"
       THEN [e |-> r.e,
             accounts |-> IF side = "buy"
                          THEN Economy_release_order_lock(lock.accounts, user_id,
                                                          price, quantity)
                          ELSE lock.accounts,
             trades |-> <<>>, resp |-> "ValueError", rested |-> FALSE]
       ELSE IF r.err # "none"
       THEN [e |-> r.e, accounts |-> lock.accounts, trades |-> r.trades,
             resp |-> r.err, rested |-> r.rested]
       ELSE
       With(ConfirmTrades(lock.accounts, market_id, r.trades), LAMBDA c :
          IF c.err # "none"
          THEN [e |-> r.e, accounts |-> c.accounts, trades |-> r.trades,
                resp |-> c.err, rested |-> r.rested]
          ELSE [e |-> r.e,
                accounts |-> PriceImprovementRefund(c.accounts, side, user_id,
                                                    price, r.trades),
                trades |-> r.trades, resp |-> "ok", rested |-> r.rested])))

\* SystemAuditor._audit_positions: some market's net positions are not 0
audit_positions_fails(e) ==
    \E m \in MarketKeys :
        /\ InSeq(m, e.market_keys)
        /\ SumOver(e.books[m].positions, AllUsers) # 0

\* sum(order.quantity for order in book._orders.values())
BookVolume(b) ==
    SumOver([o \in OrderIds |->
                IF b.orders[o] = NoNode THEN 0 ELSE b.node[b.orders[o]].quantity],
            OrderIds)

\* sum(meta.quantity for meta in registry.values() if meta.market_id == market_id)
RegistryVolume(registry, market_id) ==
    SumOver([o \in OrderIds |->
                IF registry[o].present /\ registry[o].market_id = market_id
                THEN registry[o].quantity ELSE 0],
            OrderIds)

\* SystemAuditor._audit_registry: some market's two volumes differ
audit_registry_fails(e) ==
    \E m \in MarketKeys :
        /\ InSeq(m, e.market_keys)
        /\ BookVolume(e.books[m]) # RegistryVolume(e.registry, m)

\* SystemAuditor.run_full_audit raises ValueError (_audit_cash only prints
\* the total)
run_full_audit_fails(e, accounts) ==
    audit_positions_fails(e) \/ audit_registry_fails(e)

\* EngineInterface._handle_place_order of an interface built with
\* debug_mode = True and an auditor: step 6 audits after a successful order
\* and answers "Audit failure" when the audit raises.
Interface_place_order_debug(e, accounts, market_id, side, price, quantity, order_id, user_id, ts) ==
    With(Interface_place_order(e, accounts, market_id, side, price, quantity,
                               order_id, user_id, ts), LAMBDA r :
       IF r.resp = "ok" /\ run_full_audit_fails(r.e, r.accounts)
       THEN [r EXCEPT !.resp = "AuditFailure"]
       ELSE r)

\* EngineInterface._handle_cancel_order
Interface_cancel_order(e, accounts, order_id) ==
    With(Engine_cancel_order(e, order_id), LAMBDA r :
       IF ~r.meta.present
       THEN [e |-> r.e, accounts |-> accounts, resp |-> "not found"]
       ELSE [e |-> r.e,
             accounts |-> IF r.meta.side = "buy"
                          THEN Economy_release_order_lock(accounts, r.meta.user_id,
                                                          r.meta.price, r.meta.quantity)
                          ELSE accounts,
             resp |-> "ok"])

\* The terminal price _handle_settle gives a market: 1 if the target met or
\* exceeded the threshold, 0 if not (interface.py:388-390).
TerminalPrice(market_id, actual_screentime_minutes) ==
    IF actual_screentime_minutes >= market_id[2] THEN 1 ELSE 0

\* The loop of _handle_settle over list(self.engine._markets.keys()); the
\* KeyError of a to_external ends the workflow where it is raised.
RECURSIVE SettleLoop(_, _, _, _, _)
SettleLoop(e, accounts, keys, target_user_id, actual_screentime_minutes) ==
    IF keys = <<>> THEN [e |-> e, accounts |-> accounts, resp |-> "ok"]
    ELSE
    LET market_id == Head(keys)
    IN IF market_id[1] # target_user_id
       THEN SettleLoop(e, accounts, Tail(keys), target_user_id, actual_screentime_minutes)
       ELSE
       With(Book_settle_market(e.books[market_id],
                               TerminalPrice(market_id, actual_screentime_minutes)),
            LAMBDA r :
       With([e EXCEPT !.books[market_id] = r.b], LAMBDA e1 :
          IF ~to_external_ok(market_id[1])
          THEN [e |-> e1, accounts |-> accounts, resp |-> "KeyError"]
          ELSE With(ConfirmTrades(accounts, market_id, r.trades), LAMBDA c :
                  IF c.err # "none"
                  THEN [e |-> e1, accounts |-> c.accounts, resp |-> c.err]
                  ELSE SettleLoop(e1, c.accounts, Tail(keys), target_user_id,
                                  actual_screentime_minutes))))

\* EngineInterface._handle_settle
Interface_settle(e, accounts, target_user_id, actual_screentime_minutes) ==
    SettleLoop(e, accounts, e.market_keys, target_user_id, actual_screentime_minutes)

(***************************************************************************)
(* The state machine.                                                      *)
(*   books, market_keys, order_registry   the MatchingEngine               *)
(*   accounts                             the EconomyManager               *)
(*   clock    the number of order nodes created so far; the n-th           *)
(*            _add_to_book call reads time.time() = n                      *)
(*   hung     a call entered a loop that never ends                        *)
(*   server   the tasks of server.py's event loop: pc, the position of     *)
(*            each task; running, the task that holds the loop (NoTask     *)
(*            when every task is suspended at an await); request, the      *)
(*            request a client's handler is working on; saved, what the    *)
(*            last save_world wrote                                        *)
(***************************************************************************)
VARIABLES books, market_keys, order_registry, accounts, clock, hung, server

vars == <<books, market_keys, order_registry, accounts, clock, hung, server>>

\* The tasks main() starts: one handle_client per connection (client c sends
\* the requests of user c) and periodic_save.
Clients == Users
Saver == 0
Tasks == Clients \cup {Saver}
NoTask == -1

NoRequest == [type |-> "none", side |-> "none", price |-> 0, qty |-> 0, id |-> 0,
              minutes |-> 0, trades |-> <<>>]
NoSave == [written |-> FALSE, economy |-> <<>>, engine |-> <<>>]

\* OrderBookServer() and the tasks before their first resumption: every
\* client waits in readuntil, periodic_save in asyncio.sleep.
ServerInit ==
    [pc |-> [t \in Tasks |-> IF t = Saver THEN "sleep" ELSE "readuntil"],
     running |-> NoTask,
     request |-> [c \in Clients |-> NoRequest],
     saved |-> NoSave]

Engine == [books |-> books, market_keys |-> market_keys, registry |-> order_registry]

InitialCash == 4                     \* cents each user deposits before trading
BookMarket == <<1, 1>>               \* the book driven directly in SpecBook

\* The orders explored: any price and quantity on BookMarket, unit orders at
\* price 1 on the other markets.
InRange(market_id, price, quantity) ==
    market_id = BookMarket \/ (price = 1 /\ quantity = 1)

InitEngine ==
    /\ books = MatchingEngine.books
    /\ market_keys = MatchingEngine.market_keys
    /\ order_registry = MatchingEngine.registry
    /\ clock = 0
    /\ hung = FALSE
    /\ server = ServerInit

\* EconomyManager() followed by one deposit per user
Init ==
    /\ InitEngine
    /\ accounts = [u \in AllUsers |->
                      IF u \in Users
                      THEN [Account EXCEPT !.balance_available = InitialCash]
                      ELSE Account]

InitBook ==
    /\ InitEngine
    /\ accounts = [u \in AllUsers |-> Account]

\* A call is explored when the nodes created so far stay within the bound.
TickWithin(rested, bound) == /\ clock' = IF rested THEN clock + 1 ELSE clock
                             /\ clock' <= bound

Tick(rested) == TickWithin(rested, MaxClock)

(* ---- calls on one OrderBook ---- *)
BookProcessOrder ==
    \E side \in Sides, price \in Prices, quantity \in Qtys,
       order_id \in OrderIds, user_id \in Users :
        /\ ~hung
        /\ UNCHANGED server
        /\ \E r \in {Book_process_order(books[BookMarket], side, price, quantity,
                                       order_id, user_id, clock + 1)} :
              /\ Tick(r.rested)
              /\ books' = [books EXCEPT ![BookMarket] = r.b]
              /\ hung' = (r.err = "hang")
        /\ UNCHANGED <<market_keys, order_registry, accounts>>

BookAddOrder ==
    \E side \in Sides, price \in Prices, quantity \in Qtys,
       order_id \in OrderIds, user_id \in Users :
        /\ ~hung
        /\ UNCHANGED server
        /\ books[BookMarket].active
        /\ Tick(TRUE)
        /\ books' = [books EXCEPT ![BookMarket] =
                        Book_add_order(@, side, price, quantity, order_id,
                                       user_id, clock + 1).b]
        /\ UNCHANGED <<market_keys, order_registry, accounts, hung>>

BookCancelOrder ==
    \E order_id \in OrderIds :
        /\ ~hung
        /\ UNCHANGED server
        /\ books' = [books EXCEPT ![BookMarket] = Book_cancel_order(@, order_id)]
        /\ UNCHANGED <<market_keys, order_registry, accounts, clock, hung>>

BookGetBestBid ==
    /\ ~hung
    /\ UNCHANGED server
    /\ books' = [books EXCEPT ![BookMarket] = Book_get_best_bid(@).b]
    /\ UNCHANGED <<market_keys, order_registry, accounts, clock, hung>>

BookGetBestAsk ==
    /\ ~hung
    /\ UNCHANGED server
    /\ books' = [books EXCEPT ![BookMarket] = Book_get_best_ask(@).b]
    /\ UNCHANGED <<market_keys, order_registry, accounts, clock, hung>>

BookSettleMarket ==
    \E terminal_price \in {0, 1} :
        /\ ~hung
        /\ UNCHANGED server
        /\ books' = [books EXCEPT ![BookMarket] = Book_settle_market(@, terminal_price).b]
        /\ UNCHANGED <<market_keys, order_registry, accounts, clock, hung>>

NextBook ==
    \/ BookProcessOrder
    \/ BookCancelOrder
    \/ BookGetBestBid
    \/ BookGetBestAsk
    \/ BookSettleMarket

SpecBook == InitBook /\ [][NextBook]_vars

NextBookAdd == NextBook \/ BookAddOrder

SpecBookAdd == InitBook /\ [][NextBookAdd]_vars

(* ---- calls on the MatchingEngine ---- *)
EngineProcessOrder ==
    \E market_id \in Markets, side \in Sides, price \in Prices, quantity \in Qtys,
       order_id \in OrderIds, user_id \in Users :
        /\ ~hung
        /\ UNCHANGED server
        /\ InRange(market_id, price, quantity)
        /\ \E r \in {Engine_process_order(Engine, market_id, side, price, quantity,
                                         order_id, user_id, clock + 1)} :
              /\ Tick(r.rested)
              /\ books' = r.e.books
              /\ market_keys' = r.e.market_keys
              /\ order_registry' = r.e.registry
              /\ hung' = (r.err = "hang")
        /\ UNCHANGED accounts

EngineCancelOrder ==
    \E order_id \in OrderIds :
        /\ ~hung
        /\ UNCHANGED server
        /\ \E r \in {Engine_cancel_order(Engine, order_id)} :
              /\ books' = r.e.books
              /\ order_registry' = r.e.registry
        /\ UNCHANGED <<market_keys, accounts, clock, hung>>

NextEngine == EngineProcessOrder \/ EngineCancelOrder

SpecEngine == InitBook /\ [][NextEngine]_vars

(* ---- engine calls with settlement and a save / load cycle ---- *)
EngineSettle ==
    \E target_user_id \in Users, actual_screentime_minutes \in 0..2 :
        /\ ~hung
        /\ UNCHANGED server
        /\ \E r \in {Engine_settle_markets_for_user(Engine, target_user_id,
                                                   actual_screentime_minutes)} :
              books' = r.e.books
        /\ UNCHANGED <<market_keys, order_registry, accounts, clock, hung>>

\* engine2.load_state(engine.dump_state()), with engine2 a new
\* MatchingEngine() or the engine itself; engine2 is the engine from then on.
EngineLoadState ==
    \E fresh \in BOOLEAN :
        /\ ~hung
        /\ UNCHANGED server
        /\ \E e2 \in {Engine_load_state(IF fresh THEN MatchingEngine ELSE Engine,
                                        Engine_dump_state(Engine), clock + 1)} :
              /\ books' = e2.books
              /\ market_keys' = e2.market_keys
              /\ order_registry' = e2.registry
        /\ UNCHANGED <<accounts, clock, hung>>

NextPersist == EngineProcessOrder \/ EngineCancelOrder \/ EngineSettle \/ EngineLoadState

SpecPersist == InitBook /\ [][NextPersist]_vars

(* ---- requests through the EngineInterface ---- *)
PlaceOrder ==
    \E market_id \in Markets, side \in Sides, price \in Prices, quantity \in Qtys,
       order_id \in OrderIds, user_id \in Users :
        /\ ~hung
        /\ UNCHANGED server
        /\ InRange(market_id, price, quantity)
        /\ \E r \in {Interface_place_order(Engine, accounts, market_id, side, price,
                                          quantity, order_id, user_id, clock + 1)} :
              /\ Tick(r.rested)
              /\ books' = r.e.books
              /\ market_keys' = r.e.market_keys
              /\ order_registry' = r.e.registry
              /\ accounts' = r.accounts
              /\ hung' = (r.resp = "hang")

CancelOrder ==
    \E order_id \in OrderIds :
        /\ ~hung
        /\ UNCHANGED server
        /\ \E r \in {Interface_cancel_order(Engine, accounts, order_id)} :
              /\ books' = r.e.books
              /\ order_registry' = r.e.registry
              /\ accounts' = r.accounts
        /\ UNCHANGED <<market_keys, clock, hung>>

Settle ==
    \E target_user_id \in Users, actual_screentime_minutes \in 0..2 :
        /\ ~hung
        /\ UNCHANGED server
        /\ \E r \in {Interface_settle(Engine, accounts, target_user_id,
                                     actual_screentime_minutes)} :
              /\ books' = r.e.books
              /\ accounts' = r.accounts
        /\ UNCHANGED <<market_keys, order_registry, clock, hung>>

Next == PlaceOrder \/ CancelOrder \/ Settle

Spec == Init /\ [][Next]_vars

(* ---- requests to an interface with debug_mode and an auditor ---- *)
PlaceOrderDebug ==
    \E market_id \in Markets, side \in Sides, price \in Prices, quantity \in Qtys,
       order_id \in OrderIds, user_id \in Users :
        /\ ~hung
        /\ UNCHANGED server
        /\ InRange(market_id, price, quantity)
        /\ \E r \in {Interface_place_order_debug(Engine, accounts, market_id, side,
                                                price, quantity, order_id, user_id,
                                                clock + 1)} :
              /\ Tick(r.rested)
              /\ books' = r.e.books
              /\ market_keys' = r.e.market_keys
              /\ order_registry' = r.e.registry
              /\ accounts' = r.accounts
              /\ hung' = (r.resp = "hang")

NextAudit == PlaceOrderDebug \/ CancelOrder \/ Settle

SpecAudit == Init /\ [][NextAudit]_vars

(* ---- requests for unit orders on one market, up to MaxUnitClock nodes ---- *)
PlaceUnitOrder ==
    \E side \in Sides, price \in Prices, order_id \in OrderIds, user_id \in Users :
        /\ ~hung
        /\ UNCHANGED server
        /\ \E r \in {Interface_place_order(Engine, accounts, BookMarket, side, price,
                                          1, order_id, user_id, clock + 1)} :
              /\ TickWithin(r.rested, MaxUnitClock)
              /\ books' = r.e.books
              /\ market_keys' = r.e.market_keys
              /\ order_registry' = r.e.registry
              /\ accounts' = r.accounts
              /\ hung' = (r.resp = "hang")

NextUnit == PlaceUnitOrder \/ CancelOrder \/ Settle

SpecUnit == Init /\ [][NextUnit]_vars

(* ---- requests whose quantity is any integer, on one market ---- *)
\* request["qty"] is read with int(...) and checked nowhere (interface.py:122);
\* the quantities explored are a negative one, zero and a positive one.
AnyQtys == {-1, 0, 1}

\* A request with a quantity <= 0 is explored at price 1 and while no locked
\* balance is negative yet, which keeps the balances within finite bounds.
PlaceAnyQuantity ==
    \E side \in Sides, price \in Prices, quantity \in AnyQtys,
       order_id \in OrderIds, user_id \in Users :
        /\ ~hung
        /\ UNCHANGED server
        /\ quantity > 0 \/ (price = 1 /\ \A u \in Users : accounts[u].balance_locked >= 0)
        /\ \E r \in {Interface_place_order(Engine, accounts, BookMarket, side, price,
                                          quantity, order_id, user_id, clock + 1)} :
              /\ Tick(r.rested)
              /\ books' = r.e.books
              /\ market_keys' = r.e.market_keys
              /\ order_registry' = r.e.registry
              /\ accounts' = r.accounts
              /\ hung' = (r.resp = "hang")

NextQty == PlaceAnyQuantity \/ CancelOrder \/ Settle

SpecQty == Init /\ [][NextQty]_vars

(* ---- calls on the EconomyManager alone ---- *)
MaxBalance == 3      \* cents a user starts with, available and locked each

\* Accounts as deposits and earlier locks leave them: any available and any
\* locked balance from 0 to MaxBalance cents.
InitRelease ==
    /\ InitEngine
    /\ \E available \in [Users -> 0..MaxBalance], locked \in [Users -> 0..MaxBalance] :
          accounts = [u \in AllUsers |->
                         IF u \in Users
                         THEN [Account EXCEPT !.balance_available = available[u],
                                              !.balance_locked = locked[u]]
                         ELSE Account]

AttemptOrderLock ==
    \E user_id \in Users, price \in Prices, quantity \in Qtys :
        /\ accounts' = Economy_attempt_order_lock(accounts, user_id, price, quantity).accounts
        /\ UNCHANGED <<books, market_keys, order_registry, clock, hung, server>>

ReleaseOrderLock ==
    \E user_id \in Users, price \in Prices, quantity \in Qtys :
        /\ accounts' = Economy_release_order_lock(accounts, user_id, price, quantity)
        /\ UNCHANGED <<books, market_keys, order_registry, clock, hung, server>>

NextRelease == AttemptOrderLock \/ ReleaseOrderLock

SpecRelease == InitRelease /\ [][NextRelease]_vars

(* ---- the asyncio server (server.py): clients and the periodic save ---- *)
\* Fault variant of AwaitPoints: the place-order handler awaits between the
\* lock and the matching.
AwaitPoints_match == {"readuntil", "drain", "sleep", "match"}

\* The positions at which a task awaits, that is, gives the event loop to
\* the other tasks: reader.readuntil (server.py:66), writer.drain (93) and
\* asyncio.sleep (630).  No handler contains an await of its own.
AwaitPoints == {"readuntil", "drain", "sleep"}

\* The event loop resumes a task that is suspended at an await only when no
\* task is running; a running task runs on until its next await.
CanRun(t) ==
    /\ ~hung
    /\ \/ server.running = t
       \/ server.running = NoTask /\ server.pc[t] \in AwaitPoints

\* The server after task t moved to position pos.
Moved(srv, t, pos) ==
    [srv EXCEPT !.pc[t] = pos,
                !.running = IF pos \in AwaitPoints THEN NoTask ELSE t]

\* The requests a client sends: orders on BookMarket, cancels, and the settle
\* request for the market's target user.
Requests ==
    {[NoRequest EXCEPT !.type = "place_order", !.side = side, !.price = price,
                       !.qty = 1, !.id = id] :
        side \in Sides, price \in Prices, id \in OrderIds}
    \cup {[NoRequest EXCEPT !.type = "cancel", !.id = id] : id \in OrderIds}
    \cup {[NoRequest EXCEPT !.type = "settle", !.minutes = 1]}

\* handle_client: readuntil returns a line, the request is parsed and
\* process_request enters the handler (server.py:66-89, 108-140).
ServeReadRequest(c) ==
    /\ CanRun(c)
    /\ server.pc[c] = "readuntil"
    /\ \E req \in Requests :
          server' = [Moved(server, c, IF req.type = "place_order" THEN "lock"
                                      ELSE req.type)
                        EXCEPT !.request[c] = req]
    /\ UNCHANGED <<books, market_keys, order_registry, accounts, clock, hung>>

\* _handle_place_order, "Economy Check: Lock funds for Buy orders"
\* (server.py:264-269).
ServePlaceLock(c) ==
    /\ CanRun(c)
    /\ server.pc[c] = "lock"
    /\ \E lock \in {IF server.request[c].side = "buy"
                    THEN Economy_attempt_order_lock(accounts, c, server.request[c].price,
                                                    server.request[c].qty)
                    ELSE [accounts |-> accounts, ok |-> TRUE]} :
          /\ accounts' = lock.accounts
          /\ server' = IF lock.ok THEN Moved(server, c, "match")
                       ELSE [Moved(server, c, "drain") EXCEPT !.request[c] = NoRequest]
    /\ UNCHANGED <<books, market_keys, order_registry, clock, hung>>

\* _handle_place_order, create_market and engine.process_order
\* (server.py:274-287; orderbook/engine.py keeps no registry); a ValueError is
\* answered with the refund of the lock (365-370), any other exception by
\* process_request (145-154).
ServePlaceMatch(c) ==
    /\ CanRun(c)
    /\ server.pc[c] = "match"
    /\ \E req \in {server.request[c]} :
       \E e1 \in {Engine_create_market(Engine, BookMarket)} :
       \E r \in {Book_process_order(e1.books[BookMarket], req.side, req.price, req.qty,
                                   req.id, c, clock + 1)} :
          /\ Tick(r.rested)
          /\ books' = [books EXCEPT ![BookMarket] = r.b]
          /\ market_keys' = e1.market_keys
          /\ hung' = (r.err = "hang")
          /\ accounts' = IF r.err = "ValueError" /\ req.side = "buy"
                         THEN Economy_release_order_lock(accounts, c, req.price, req.qty)
                         ELSE accounts
          /\ server' = IF r.err = "none"
                       THEN [Moved(server, c, "confirm") EXCEPT !.request[c].trades = r.trades]
                       ELSE IF r.err = "hang" THEN server
                       ELSE [Moved(server, c, "drain") EXCEPT !.request[c] = NoRequest]
    /\ UNCHANGED order_registry

\* _handle_place_order, "Settlement: Confirm any resulting trades in economy"
\* (server.py:300-318).
ServePlaceConfirm(c) ==
    /\ CanRun(c)
    /\ server.pc[c] = "confirm"
    /\ \E r \in {ConfirmTrades(accounts, BookMarket, server.request[c].trades)} :
          /\ accounts' = r.accounts
          /\ server' = IF r.err = "none" THEN Moved(server, c, "refund")
                       ELSE [Moved(server, c, "drain") EXCEPT !.request[c] = NoRequest]
    /\ UNCHANGED <<books, market_keys, order_registry, clock, hung>>

\* _handle_place_order, "Price Improvement: Release unused locked funds" and
\* the response (server.py:320-363).
ServePlaceRefund(c) ==
    /\ CanRun(c)
    /\ server.pc[c] = "refund"
    /\ accounts' = PriceImprovementRefund(accounts, server.request[c].side, c,
                                          server.request[c].price,
                                          server.request[c].trades)
    /\ server' = [Moved(server, c, "drain") EXCEPT !.request[c] = NoRequest]
    /\ UNCHANGED <<books, market_keys, order_registry, clock, hung>>

\* _handle_cancel (server.py:372-414): the server's engine is
\* orderbook.engine.MatchingEngine (server.py:10), which has no cancel_order;
\* the AttributeError is answered by process_request (150-154).
ServeCancel(c) ==
    /\ CanRun(c)
    /\ server.pc[c] = "cancel"
    /\ server' = [Moved(server, c, "drain") EXCEPT !.request[c] = NoRequest]
    /\ UNCHANGED <<books, market_keys, order_registry, accounts, clock, hung>>

\* _handle_settle (server.py:432-479), the same loop as the interface's.
ServeSettle(c) ==
    /\ CanRun(c)
    /\ server.pc[c] = "settle"
    /\ \E r \in {Interface_settle(Engine, accounts, BookMarket[1],
                                 server.request[c].minutes)} :
          /\ books' = r.e.books
          /\ accounts' = r.accounts
    /\ server' = [Moved(server, c, "drain") EXCEPT !.request[c] = NoRequest]
    /\ UNCHANGED <<market_keys, order_registry, clock, hung>>

\* handle_client: the response is written, drain returns and the loop goes
\* back to readuntil (server.py:91-93, 63-66).
ServeDrain(c) ==
    /\ CanRun(c)
    /\ server.pc[c] = "drain"
    /\ server' = Moved(server, c, "readuntil")
    /\ UNCHANGED <<books, market_keys, order_registry, accounts, clock, hung>>

\* periodic_save: asyncio.sleep returns and save_world writes the engine's
\* and the economy's state (server.py:627-631, 515-547).
SaveWorld ==
    /\ CanRun(Saver)
    /\ server.pc[Saver] = "sleep"
    /\ server' = [Moved(server, Saver, "sleep")
                     EXCEPT !.saved = [written |-> TRUE, economy |-> accounts,
                                       engine |-> Engine_dump_state(Engine)]]
    /\ UNCHANGED <<books, market_keys, order_registry, accounts, clock, hung>>

NextServer ==
    \/ \E c \in Clients : ServeReadRequest(c)
    \/ \E c \in Clients : ServePlaceLock(c)
    \/ \E c \in Clients : ServePlaceMatch(c)
    \/ \E c \in Clients : ServePlaceConfirm(c)
    \/ \E c \in Clients : ServePlaceRefund(c)
    \/ \E c \in Clients : ServeCancel(c)
    \/ \E c \in Clients : ServeSettle(c)
    \/ \E c \in Clients : ServeDrain(c)
    \/ SaveWorld

SpecServer == Init /\ [][NextServer]_vars

(***************************************************************************)
(* Properties.  A property about the result of a call is stated over every *)
(* call that can be made in the current state: the call's result is the    *)
(* value of the operator that models it.                                   *)
(***************************************************************************)
Book == books[BookMarket]
Opposite(side) == IF side = "buy" THEN "sell" ELSE "buy"

\* The nodes linked in a queue, found by following next_node from the head.
RECURSIVE FollowNext(_, _)
FollowNext(node, S) ==
    LET T == (S \cup {node[n].next_node : n \in S}) \ {NoNode}
    IN IF T = S THEN S ELSE FollowNext(node, T)

\* The nodes resting on a side of book b at price p.
RestingAt(b, side, p) ==
    LET lst == IF side = "buy" THEN b.bids[p] ELSE b.asks[p]
    IN IF lst.exists THEN FollowNext(b.node, {lst.head} \ {NoNode}) ELSE {}

\* The quantity resting on a side at price p in the order stamped t (every
\* node has its own timestamp), 0 when that order rests there no more.
StampQty(b, side, p, t) ==
    LET S == {n \in RestingAt(b, side, p) : b.node[n].timestamp = t}
    IN IF S = {} THEN 0 ELSE b.node[CHOOSE n \in S : TRUE].quantity

LivePrices(b, side) == {p \in Prices : RestingAt(b, side, p) # {}}

RegistryIntegrity ==
    /\ \A m \in Markets, s \in Sides, p \in Prices :
         \A n \in RestingAt(books[m], s, p) :
            LET nd == books[m].node[n]
            IN order_registry[nd.order_id] =
                  OrderMetadata(m, s, p, nd.quantity, nd.user_id)
    /\ \A o \in OrderIds :
         order_registry[o].present =>
            LET meta == order_registry[o]
            IN \E n \in RestingAt(books[meta.market_id], meta.side, meta.price) :
                  books[meta.market_id].node[n].order_id = o

\* A cancel request that answers "not found" and changes nothing.
CancelIsNoOp(e, accts, order_id) ==
    LET c == Interface_cancel_order(e, accts, order_id)
    IN /\ c.resp = "not found"
       /\ c.e = e
       /\ c.accounts = accts

\* The ids of the orders a successful place-order has filled completely: the
\* incoming order when nothing of it rests, and every maker of a trade that is
\* no longer in the book.
FullyFilled(r, market_id, order_id) ==
    {o \in OrderIds :
        /\ r.trades # <<>>
        /\ r.e.books[market_id].orders[o] = NoNode
        /\ \/ o = order_id /\ ~r.rested
           \/ \E i \in 1..Len(r.trades) : r.trades[i].maker_order_id = o}

Cash(accts, u) == accts[u].balance_available + accts[u].balance_locked

NonNegativeBalances ==
    \A u \in AllUsers : /\ accounts[u].balance_available >= 0
                        /\ accounts[u].balance_locked >= 0

\* C12: a place-order whose quantity is <= 0, buy or sell, is rejected with
\* InvalidQuantity and mutates nothing: no trade, no resting order, no
\* registry entry, no position change, and the balances are as before.
InvalidQuantityRejected ==
    \A side \in Sides, price \in Prices, quantity \in {q \in AnyQtys : q <= 0},
       order_id \in OrderIds, user_id \in Users :
        LET r == Interface_place_order(Engine, accounts, BookMarket, side, price,
                                       quantity, order_id, user_id, clock + 1)
        IN /\ r.resp = "InvalidQuantity"
           /\ r.trades = <<>>
           /\ r.e.books = books
           /\ r.e.registry = order_registry
           /\ r.accounts = accounts

\* A place-order that leaves books, registry and balances as they were and
\* returns no trade.
MutatesNothing(r) ==
    /\ r.trades = <<>>
    /\ r.e.books = books
    /\ r.e.registry = order_registry
    /\ r.accounts = accounts

\* The order id rests in the book of some market.
RestingAnywhere(order_id) == \E m \in Markets : books[m].orders[order_id] # NoNode

\* C13: a place-order whose order_id is already resting anywhere in the
\* engine, in the same or in another market, is rejected with DuplicateOrderId
\* and mutates nothing: the resting order keeps its book entry, queue position,
\* quantity and registry entry, no trade is produced and a buyer's lock is
\* refunded in full (a buy the buyer cannot fund may be rejected for that).
DuplicateOrderIdRejected ==
    \A market_id \in Markets, side \in Sides, price \in Prices, quantity \in Qtys,
       order_id \in OrderIds, user_id \in Users :
        RestingAnywhere(order_id) =>
            LET r == Interface_place_order(Engine, accounts, market_id, side, price,
                                           quantity, order_id, user_id, clock + 1)
            IN /\ \/ r.resp = "DuplicateOrderId"
                  \/ /\ r.resp = "InsufficientFunds"
                     /\ side = "buy"
                     /\ accounts[user_id].balance_available < price * quantity
               /\ MutatesNothing(r)

\* C14: once a market has been settled, every later place-order on it fails
\* with MarketInactive (the ValueError of process_order): no trade, no resting
\* order, positions and registry unchanged, and for a buy the full lock
\* price x quantity is released, so the buyer's balances are those from before
\* the request (a buy the buyer cannot fund may be rejected for that).
MarketInactiveRejected ==
    \A market_id \in Markets, side \in Sides, price \in Prices, quantity \in Qtys,
       order_id \in OrderIds, user_id \in Users :
        ~books[market_id].active =>
            LET r == Interface_place_order(Engine, accounts, market_id, side, price,
                                           quantity, order_id, user_id, clock + 1)
            IN /\ \/ r.resp = "ValueError"
                  \/ /\ r.resp = "InsufficientFunds"
                     /\ side = "buy"
                     /\ accounts[user_id].balance_available < price * quantity
               /\ MutatesNothing(r)

\* C15: a buy whose cost price x quantity exceeds the buyer's
\* balance_available is rejected with InsufficientFunds before it reaches the
\* engine: books, registry, positions, markets and balances are unchanged; and
\* when available >= cost, attempt_order_lock moves exactly cost from available
\* to locked and the request is not rejected for funds.
InsufficientFundsRejected ==
    \A market_id \in Markets, price \in Prices, quantity \in Qtys,
       order_id \in OrderIds, user_id \in Users :
        LET cost == price * quantity
            r == Interface_place_order(Engine, accounts, market_id, "buy", price,
                                       quantity, order_id, user_id, clock + 1)
            l == Economy_attempt_order_lock(accounts, user_id, price, quantity)
        IN IF cost > accounts[user_id].balance_available
           THEN /\ r.resp = "InsufficientFunds"
                /\ MutatesNothing(r)
                /\ r.e = Engine
                /\ ~l.ok /\ l.accounts = accounts
           ELSE /\ r.resp # "InsufficientFunds"
                /\ l.ok
                /\ l.accounts =
                      [accounts EXCEPT ![user_id].balance_available = @ - cost,
                                       ![user_id].balance_locked = @ + cost]

\* A user with a resting buy has 3 cents available: a buy of 2 at 2 is
\* rejected for funds while a buy of 1 at 2 is funded.
InsufficientFundsRejected_witness ==
    \E user_id \in Users :
        /\ accounts[user_id].balance_available = 3
        /\ accounts[user_id].balance_locked = 1
        /\ Interface_place_order(Engine, accounts, BookMarket, "buy", 2, 2, 3,
                                 user_id, clock + 1).resp = "InsufficientFunds"
        /\ Economy_attempt_order_lock(accounts, user_id, 2, 1).ok

\* C16: cancel refunds the lock.  Cancelling a resting buy order moves exactly
\* limit price x the quantity still resting from the owner's locked balance to
\* the owner's available balance; cancelling a resting sell order changes no
\* balance.
CancelRefundsLock ==
    \A m \in Markets, side \in Sides, p \in Prices :
        \A n \in RestingAt(books[m], side, p) :
            LET nd == books[m].node[n]
                c == Interface_cancel_order(Engine, accounts, nd.order_id)
            IN c.accounts =
                  IF side = "buy"
                  THEN [accounts EXCEPT
                          ![nd.user_id].balance_locked = @ - p * nd.quantity,
                          ![nd.user_id].balance_available = @ + p * nd.quantity]
                  ELSE accounts

\* What the trades pay to user_id as their seller.
PaidTo(trades, user_id) ==
    SeqSum([i \in 1..Len(trades) |->
               IF trades[i].sell_user_id = user_id
               THEN trades[i].price * trades[i].quantity ELSE 0])

RestingBuyValue(m, u) ==
    SumOver([p \in Prices |->
                p * SumOver([n \in NodeIds |->
                                IF /\ n \in RestingAt(books[m], "buy", p)
                                   /\ books[m].node[n].user_id = u
                                THEN books[m].node[n].quantity ELSE 0],
                            NodeIds)],
            Prices)

\* C18: locked cash equals resting buy value.  After any sequence of
\* place-order, cancel-order and settle workflows every user's balance_locked
\* is the sum, over the user's resting buy orders in all markets, of limit
\* price x remaining quantity; a user with no resting buy has locked 0.
LockedEqualsRestingBuys ==
    \A u \in Users :
        accounts[u].balance_locked =
            SumOver([m \in Markets |-> RestingBuyValue(m, u)], Markets)

TargetMarkets(target_id) ==
    {m \in Markets : InSeq(m, market_keys) /\ m[1] = target_id}

\* Book b is book b0 settled: closed, with every position marked to 0.
SettledFrom(b, b0) ==
    /\ ~b.active
    /\ \A u \in AllUsers : b.positions[u] = 0

\* The engine method settle_markets_for_user settles exactly the markets of
\* the target, each at 1 when actual_value >= threshold and at 0 otherwise.
EngineSettlesTargetMarkets ==
    \A target_id \in Users, actual_value \in 0..2 :
        LET r == Engine_settle_markets_for_user(Engine, target_id, actual_value)
        IN /\ \A m \in Markets :
                IF m \in TargetMarkets(target_id)
                THEN SettledFrom(r.e.books[m], books[m])
                ELSE r.e.books[m] = books[m]
           /\ Len(r.trades) =
                 Cardinality({<<m, u>> \in TargetMarkets(target_id) \X AllUsers :
                                 books[m].positions[u] # 0})
           /\ \A m \in TargetMarkets(target_id), u \in AllUsers :
                books[m].positions[u] # 0 =>
                   \E i \in 1..Len(r.trades) :
                      /\ u \in {r.trades[i].buy_user_id, r.trades[i].sell_user_id}
                      /\ r.trades[i].price = IF actual_value >= m[2] THEN 1 ELSE 0

MarketCleared(e, m) ==
    /\ ~e.books[m].active
    /\ e.books[m].order_keys = <<>>
    /\ \A o \in OrderIds : e.books[m].orders[o] = NoNode
    /\ \A p \in Prices : ~e.books[m].bids[p].exists /\ ~e.books[m].asks[p].exists
    /\ \A o \in OrderIds : ~(e.registry[o].present /\ e.registry[o].market_id = m)

\* C22: after a market is settled it is inactive, its book holds no resting
\* order (orders map, bid levels and ask levels are empty) and the registry
\* holds no entry of that market, so a later cancel_order of an order that was
\* resting there returns "not found" (None from the engine).
SettleClearsMarket ==
    \A target_id \in Users, actual_value \in 0..2 :
        LET r == Engine_settle_markets_for_user(Engine, target_id, actual_value)
            w == Interface_settle(Engine, accounts, target_id, actual_value)
        IN \A m \in TargetMarkets(target_id) :
              /\ MarketCleared(r.e, m)
              /\ MarketCleared(w.e, m)
              /\ \A o \in OrderIds :
                    books[m].orders[o] # NoNode =>
                       /\ ~Engine_cancel_order(r.e, o).meta.present
                       /\ Interface_cancel_order(w.e, w.accounts, o).resp = "not found"

\* What one confirm_trade of the synthetic trade of a user with position pos
\* adds to that user's portfolio quantity: the user is the buyer of |pos| when
\* long at terminal 1 or short at terminal 0, the seller otherwise.
SettledQuantity(pos, terminal_price) ==
    LET qty == IF pos > 0 THEN pos ELSE -pos
    IN IF (pos > 0 /\ terminal_price = 1) \/ (pos < 0 /\ terminal_price = 0)
       THEN qty ELSE -qty

Reloaded == Engine_load_state(MatchingEngine, Engine_dump_state(Engine), clock + 1)

\* The key under which load_state restores the market dumped from key m.
RestoredKey(m) == <<Format(m[1]), ParseInt(Format(m[2]))>>

\* The orders (id, user_id, side, price, qty, timestamp) of a price level of
\* book b, from the head of the queue to its tail.
QueueOrders(b, side, p) ==
    LET lst == IF side = "buy" THEN b.bids[p] ELSE b.asks[p]
    IN IF lst.exists THEN SerializeFrom(b.node, lst.head, side) ELSE <<>>

\* C24: persistence round trip of orders.  For any engine state,
\* load_state(dump_state()) yields, for every market, a book with exactly the
\* same resting orders (id, user_id, side, price, qty, timestamp), every
\* order of a level that holds more than one included, in the same FIFO order
\* inside each price level.
OrdersRoundTrip ==
    \A m \in MarketKeys :
        InSeq(m, market_keys) =>
            \A side \in Sides, p \in Prices :
                QueueOrders(Reloaded.books[RestoredKey(m)], side, p)
                    = QueueOrders(books[m], side, p)

\* C25: persistence round trip of markets.  load_state(dump_state())
\* restores every market under the same MarketId (integer target_id,
\* threshold) with the same active flag: a market settled before the dump is
\* inactive after the load and rejects orders, and an order placed for that
\* MarketId after the load goes to the restored book, not to a new one.
MarketsRoundTrip ==
    \A m \in Markets :
        InSeq(m, market_keys) =>
            /\ InSeq(m, Reloaded.market_keys)
            /\ Reloaded.books[m].active = books[m].active
            /\ \A side \in Sides, price \in Prices, order_id \in OrderIds,
                  user_id \in Users :
                  LET r == Engine_process_order(Reloaded, m, side, price, 1,
                                                order_id, user_id, clock + 1)
                  IN /\ r.e.market_keys = Reloaded.market_keys
                     /\ ~books[m].active => r.err = "ValueError"

\* The registry of engine e is the registry of the orders resting in its
\* books, and each of them can be cancelled through cancel_order.
RegistryRebuilt(e) ==
    /\ \A k \in MarketKeys, s \in Sides, p \in Prices :
         \A n \in RestingAt(e.books[k], s, p) :
            LET nd == e.books[k].node[n]
                c == Engine_cancel_order(e, nd.order_id)
            IN /\ e.registry[nd.order_id] =
                     OrderMetadata(k, s, p, nd.quantity, nd.user_id)
               /\ c.meta.present
               /\ n \notin RestingAt(c.e.books[k], s, p)
    /\ \A o \in OrderIds :
         e.registry[o].present =>
            \E k \in MarketKeys, s \in Sides, p \in Prices :
               \E n \in RestingAt(e.books[k], s, p) : e.books[k].node[n].order_id = o

\* C26: after a snapshot is loaded into an engine (a new one, or the engine
\* that was dumped) the order registry is rebuilt from the books: one entry
\* with matching market_id, side, price, remaining quantity and user_id for
\* every restored resting order, no other entry, and every restored order can
\* be cancelled through engine.cancel_order.
RegistryRebuiltAfterLoad ==
    /\ RegistryRebuilt(Reloaded)
    /\ RegistryRebuilt(Engine_load_state(Engine, Engine_dump_state(Engine), clock + 1))

\* In engine e with accounts accts no write request is accepted or mutates
\* anything: every place-order, cancel-order and settle is answered with a
\* failure and leaves e and accts as they are.
WritesHalted(e, accts, ts) ==
    /\ \A market_id \in Markets, side \in Sides, price \in Prices, quantity \in Qtys,
          order_id \in OrderIds, user_id \in Users :
          LET r == Interface_place_order_debug(e, accts, market_id, side, price,
                                               quantity, order_id, user_id, ts)
          IN r.resp # "ok" /\ r.e = e /\ r.accounts = accts
    /\ \A order_id \in OrderIds :
          LET c == Interface_cancel_order(e, accts, order_id)
          IN c.resp # "ok" /\ c.e = e /\ c.accounts = accts
    /\ \A target_id \in Users, actual_value \in 0..2 :
          LET w == Interface_settle(e, accts, target_id, actual_value)
          IN w.resp # "ok" /\ w.e = e /\ w.accounts = accts

\* C27: AuditFailure is a kill switch.  When the full audit that follows a
\* place-order fails, no later write request (place-order, cancel-order,
\* settle) is accepted or mutates the engine or the economy.
AuditFailureHalts ==
    \A market_id \in Markets, side \in Sides, price \in Prices, quantity \in Qtys,
       order_id \in OrderIds, user_id \in Users :
        LET r == Interface_place_order_debug(Engine, accounts, market_id, side,
                                             price, quantity, order_id, user_id,
                                             clock + 1)
        IN r.resp = "AuditFailure" => WritesHalted(r.e, r.accounts, clock + 2)

\* Some resting order has no registry entry with its market, side, price,
\* user and remaining quantity.
RestingOrderUnregistered ==
    \E m \in Markets, s \in Sides, p \in Prices :
        \E n \in RestingAt(books[m], s, p) :
            order_registry[books[m].node[n].order_id] #
                OrderMetadata(m, s, p, books[m].node[n].quantity,
                              books[m].node[n].user_id)

\* Some registry entry is the entry of an order that is not in its book.
RegistryEntryStale ==
    \E o \in OrderIds :
        /\ order_registry[o].present
        /\ books[order_registry[o].market_id].orders[o] = NoNode

\* C28: the auditor's registry check is complete.  run_full_audit raises in
\* every state where some resting order of a book has no registry entry with
\* matching fields or the registry holds an entry for an order not in its
\* book, also when the per-market sums of book quantities and of registry
\* quantities are equal.
AuditRegistryComplete ==
    (RestingOrderUnregistered \/ RegistryEntryStale)
        => run_full_audit_fails(Engine, accounts)

\* The sum of the remaining quantities of the nodes in S of book b.
VolumeOf(b, S) ==
    SumOver([n \in NodeIds |-> IF n \in S THEN b.node[n].quantity ELSE 0], NodeIds)

InHeap(x, h) == \E i \in 1..Len(h) : h[i] = x

LowestAsk(b) ==
    IF LivePrices(b, "sell") = {} THEN 0
    ELSE CHOOSE p \in LivePrices(b, "sell") : \A q \in LivePrices(b, "sell") : p <= q

HighestBid(b) ==
    IF LivePrices(b, "buy") = {} THEN 0
    ELSE CHOOSE p \in LivePrices(b, "buy") : \A q \in LivePrices(b, "buy") : q <= p

\* The incoming order crosses the best non-empty opposite level of b.
Crosses(b, side, price) ==
    IF side = "buy" THEN LowestAsk(b) # 0 /\ price >= LowestAsk(b)
    ELSE HighestBid(b) # 0 /\ price <= HighestBid(b)

SellAtSharedPrice(b, order_id) ==
    /\ b.orders[order_id] # NoNode
    /\ b.node[b.orders[order_id]].side = "sell"
    /\ b.bids[b.node[b.orders[order_id]].price].exists
    /\ b.asks[b.node[b.orders[order_id]].price].exists
    /\ b.orders[order_id] \in RestingAt(b, "sell", b.node[b.orders[order_id]].price)

\* C34: cancel_order unlinks the order from the queue of its own side.  When
\* a bid level and an ask level exist at the same price, cancelling a sell
\* order at that price leaves the bid level's queue, count and total_volume
\* unchanged and removes the order from the ask level.
CancelUnlinksOwnSide ==
    \A order_id \in OrderIds :
        SellAtSharedPrice(Book, order_id) =>
           LET n == Book.orders[order_id]
               price == Book.node[n].price
               b2 == Book_cancel_order(Book, order_id)
           IN /\ b2.bids[price] = Book.bids[price]
              /\ RestingAt(b2, "buy", price) = RestingAt(Book, "buy", price)
              /\ n \notin RestingAt(b2, "sell", price)

\* order_id is the maker of one of the trades.
IsMaker(trades, order_id) ==
    \E i \in 1..Len(trades) : trades[i].maker_order_id = order_id

BestMaker(b, side) ==
    IF side = "buy" THEN b.node[b.asks[LowestAsk(b)].head]
    ELSE b.node[b.bids[HighestBid(b)].head]

ReleaseMovesMin ==
    \A user_id \in Users, price \in Prices, quantity \in Qtys :
        LET a2 == Economy_release_order_lock(accounts, user_id, price, quantity)
            moved == Min(price * quantity, accounts[user_id].balance_locked)
        IN /\ a2[user_id].balance_locked = accounts[user_id].balance_locked - moved
           /\ a2[user_id].balance_available = accounts[user_id].balance_available + moved
           /\ a2[user_id].balance_locked >= 0
           /\ Cash(a2, user_id) = Cash(accounts, user_id)

\* The positions inside a place-order, cancel-order or settle workflow.
InWorkflow == {"lock", "match", "confirm", "refund", "cancel", "settle"}

\* C39: single-writer atomicity.  With several client connections and the
\* periodic save running concurrently, each place-order, cancel-order and
\* settle request runs its whole workflow without any other request or a save
\* interleaving between its steps: while a request is inside its workflow its
\* task holds the event loop, so no other task can run and observe the funds
\* locked for an order that is not yet matched or rested.
SingleWriterAtomic ==
    \A c \in Clients :
        server.pc[c] \in InWorkflow =>
           /\ server.running = c
           /\ \A t \in Tasks \ {c} : ~CanRun(t) /\ server.pc[t] \notin InWorkflow

\* A client's buy order has its funds locked and is not yet matched or rested
\* while the other client's connection and the periodic save are pending and
\* a save has been written before.
SingleWriterAtomic_witness ==
    \E c \in Clients :
        /\ server.pc[c] = "match"
        /\ server.request[c].side = "buy"
        /\ accounts[c].balance_locked > 0
        /\ \A o \in OrderIds : Book.orders[o] = NoNode
        /\ server.saved.written
        /\ \E d \in Clients \ {c} : server.pc[d] = "drain"

\* C40: every process_order call terminates.  For any reachable book state
\* (any mix of live levels, stale heap entries and duplicate heap entries)
\* and any incoming order the matching loops end after finitely many steps.
ProcessOrderTerminates ==
    \A m \in Markets, side \in Sides, price \in Prices, quantity \in Qtys,
       order_id \in OrderIds, user_id \in Users :
        Book_process_order(books[m], side, price, quantity, order_id, user_id,
                           clock + 1).err # "hang"

====
